---------------------------- MODULE Spec2Model ----------------------------
(***************************************************************************)
(* 2D feature tracking benchmark: the sweep over detector / descriptor     *)
(* pairings (main), the per-combination frame pipeline (runCombination)    *)
(* with its two-frame ring buffer, and descriptor matching                 *)
(* (matchDescriptors) with nearest-neighbour and ratio-test selection,     *)
(* and the ROI filter of detectAndFilterKeypoints.                         *)
(*                                                                         *)
(* Strings are sequences of one-character strings so that the case         *)
(* normalisation of the command line is computed, not assumed.             *)
(* A descriptor is a natural number read as a bit pattern (Hamming norm)   *)
(* or as a coordinate on a line (L2 norm); distances are naturals.         *)
(***************************************************************************)
EXTENDS Integers, Sequences, FiniteSets, TLC

(***************************************************************************)
(* Bounds of the model.                                                    *)
(***************************************************************************)
\* longest descriptor set handed to matchDescriptors in SpecMatch
MaxKp == 2
\* largest descriptor value (bit pattern / coordinate) in SpecMatch
MaxDescVal == 2
\* an injected image-load failure hits one of the first MaxFaultRun combinations
MaxFaultRun == 2

(***************************************************************************)
(* Program constants.                                                      *)
(***************************************************************************)
imgStartIndex == 0
imgEndIndex == 9
dataBufferSize == 2
\* ratio_thresh = 0.8f, in tenths
ratio_thresh == 8
\* the k handed to knnMatch
knnK == 2

(***************************************************************************)
(* Strings.                                                                *)
(***************************************************************************)
LowerCase == <<"a","b","c","d","e","f","g","h","i","j","k","l","m",
               "n","o","p","q","r","s","t","u","v","w","x","y","z">>
UpperCase == <<"A","B","C","D","E","F","G","H","I","J","K","L","M",
               "N","O","P","Q","R","S","T","U","V","W","X","Y","Z">>

toupper(c) ==
    IF \E i \in DOMAIN LowerCase : LowerCase[i] = c
    THEN UpperCase[CHOOSE i \in DOMAIN LowerCase : LowerCase[i] = c]
    ELSE c

toUpperCase(s) == [i \in 1..Len(s) |-> toupper(s[i])]

SHITOMASI == <<"S","H","I","T","O","M","A","S","I">>
HARRIS    == <<"H","A","R","R","I","S">>
FAST      == <<"F","A","S","T">>
BRISK     == <<"B","R","I","S","K">>
ORB       == <<"O","R","B">>
AKAZE     == <<"A","K","A","Z","E">>
SIFT      == <<"S","I","F","T">>
BRIEF     == <<"B","R","I","E","F">>
FREAK     == <<"F","R","E","A","K">>
MAT_BF    == <<"M","A","T","_","B","F">>
MAT_FLANN == <<"M","A","T","_","F","L","A","N","N">>
SEL_NN    == <<"S","E","L","_","N","N">>
SEL_KNN   == <<"S","E","L","_","K","N","N">>

OptDetector   == <<"-","-","d","e","t","e","c","t","o","r">>
OptDescriptor == <<"-","-","d","e","s","c","r","i","p","t","o","r">>
OptMatcher    == <<"-","-","m","a","t","c","h","e","r">>
OptSelector   == <<"-","-","s","e","l","e","c","t","o","r">>
OptSave       == <<"-","-","s","a","v","e">>

AllDetectorsNoSift == <<SHITOMASI, HARRIS, FAST, BRISK, ORB, AKAZE>>
AllDetectors   == <<SHITOMASI, HARRIS, FAST, BRISK, ORB, AKAZE, SIFT>>
AllDescriptors == <<BRISK, ORB, AKAZE, SIFT, BRIEF, FREAK>>


(***************************************************************************)
(* State.                                                                  *)
(***************************************************************************)
VARIABLES
    \* main: command line and its parsed options
    argv, argi, singleDetector, singleDescriptor, matcherType, selectorType,
    bSaveImages,
    \* main: the sweep
    pc, detectorTypes, descriptorTypes, di, dj,
    \* the two statistics files, stdout and stderr
    logState, keypointLog, matchLog, testing, errLog, usagePrinted,
    summaryPrinted,
    \* runCombination: position in the image loop, loop index, ring buffer
    rpc, imgIndex, dataBuffer,
    \* history: the last matchDescriptors call made by runCombination, and
    \* for every runCombination call where the logs stood when it began and
    \* how and where it ended
    lastCall, runs,
    \* environment: the build, the image files, the scene, what an
    \* out-of-bounds read does, whether drawing a match image throws
    hasXfeatures2d, missingAt, scene, oob, vizThrows,
    \* a single matchDescriptors call on its own (SpecMatch, SpecNorm)
    mpc, mIn, mOut,
    \* the ROI filter on its own (SpecRoi): the keypoints handed in, the
    \* keypoints left, the number of times the filter was applied, and
    \* whether the library of the build converts a float location to an
    \* integer point before the containment test
    kIn, kOut, kPasses, rectRoundsPoint

cliVars   == <<argv, argi, singleDetector, singleDescriptor, matcherType,
               selectorType, bSaveImages>>
sweepVars == <<pc, detectorTypes, descriptorTypes, di, dj>>
ioVars    == <<logState, keypointLog, matchLog, testing, errLog,
               usagePrinted, summaryPrinted>>
runVars   == <<rpc, imgIndex, dataBuffer, lastCall, runs>>
envVars   == <<hasXfeatures2d, missingAt, scene, oob, vizThrows>>
callVars  == <<mpc, mIn, mOut, kIn, kOut, kPasses, rectRoundsPoint>>
vars      == <<cliVars, sweepVars, ioVars, runVars, envVars, callVars>>

(***************************************************************************)
(* matchDescriptors.                                                       *)
(***************************************************************************)
\* what an out-of-bounds read of a neighbour list does in a given build:
\* the process is killed, or a stale value is read that makes the ratio
\* comparison come out true, or one that makes it come out false
OobModes == {"trap", "reads_pass", "reads_fail"}

Bit(x, b) == (x \div (2 ^ b)) % 2

\* NORM_HAMMING: number of differing bits
Hamming(x, y) == Cardinality({b \in 0..(MaxDescVal + 1) : Bit(x, b) # Bit(y, b)})

\* NORM_L2 on one coordinate
L2(x, y) == IF x >= y THEN x - y ELSE y - x

isBinaryDescriptor(descriptorType) == descriptorType # SIFT

normTypeOf(descriptorType) ==
    IF isBinaryDescriptor(descriptorType) THEN "NORM_HAMMING" ELSE "NORM_L2"

distance(normType, x, y) ==
    IF normType = "NORM_HAMMING" THEN Hamming(x, y) ELSE L2(x, y)

\* cv::DMatch, indices zero-based as in the library
DMatch(q, j, d) == [queryIdx |-> q - 1, trainIdx |-> j - 1, distance |-> d]

\* what reading element 0 of an empty neighbour list yields when it does
\* not trap
GarbageMatch == [queryIdx |-> -1, trainIdx |-> -1, distance |-> 0]

\* the matcher object built for matcherType, "none" when the name is unknown
createMatcherDefault(mType, descriptorType) ==
    IF mType = MAT_FLANN
    THEN (IF isBinaryDescriptor(descriptorType) THEN "FLANN_LSH"
          ELSE "FLANN_KDTREE")
    ELSE "BF"

createMatcher(mType, descriptorType) ==
    IF mType = MAT_BF THEN "BF"
    ELSE IF mType = MAT_FLANN
         THEN (IF isBinaryDescriptor(descriptorType) THEN "FLANN_LSH"
               ELSE "FLANN_KDTREE")
         ELSE "none"

\* the k nearest train descriptors of query descriptor x among the
\* candidates cand, nearest first, ties to the lower index; fewer than k
\* when there are fewer candidates
RECURSIVE nearestOf(_, _, _, _, _, _)
nearestOf(normType, q, x, descRef, cand, k) ==
    IF k = 0 \/ cand = {} THEN <<>>
    ELSE LET j == CHOOSE a \in cand : \A b \in cand :
                     \/ distance(normType, x, descRef[a])
                          < distance(normType, x, descRef[b])
                     \/ /\ distance(normType, x, descRef[a])
                            = distance(normType, x, descRef[b])
                        /\ a <= b
         IN  <<DMatch(q, j, distance(normType, x, descRef[j]))>>
             \o nearestOf(normType, q, x, descRef, cand \ {j}, k - 1)

\* DescriptorMatcher::knnMatch: one neighbour list per query descriptor
knnMatch(normType, descSource, descRef, k) ==
    [q \in 1..Len(descSource) |->
        nearestOf(normType, q, descSource[q], descRef, DOMAIN descRef, k)]

RECURSIVE flatten(_)
flatten(lists) ==
    IF lists = <<>> THEN <<>> ELSE Head(lists) \o flatten(Tail(lists))

\* DescriptorMatcher::match: the best match of each query descriptor, if
\* there is one; the output vector is overwritten
match(normType, descSource, descRef) ==
    flatten(knnMatch(normType, descSource, descRef, 1))

\* Lowe's ratio test on one neighbour list with two entries
ratioTestLe(m) == 10 * m[1].distance <= ratio_thresh * m[2].distance

ratioTest(m) == 10 * m[1].distance < ratio_thresh * m[2].distance

\* the loop over knn_matches; m[0] and m[1] are read whatever the length
\* of m is
RECURSIVE ratioLoop(_, _, _)
ratioLoop(knn_matches, matches, oobMode) ==
    IF knn_matches = <<>> THEN [status |-> "ok", matches |-> matches]
    ELSE LET m == Head(knn_matches) IN
         IF Len(m) >= 2
         THEN ratioLoop(Tail(knn_matches),
                        IF ratioTest(m) THEN Append(matches, m[1]) ELSE matches,
                        oobMode)
         ELSE IF oobMode = "trap"
              THEN [status |-> "crash", matches |-> matches]
              ELSE IF oobMode = "reads_pass"
                   THEN ratioLoop(Tail(knn_matches),
                                  Append(matches,
                                         IF Len(m) >= 1 THEN m[1] ELSE GarbageMatch),
                                  oobMode)
                   ELSE ratioLoop(Tail(knn_matches), matches, oobMode)

selectNearestAsKnn(normType, descSource, descRef, matches, oobMode) ==
    ratioLoop(knnMatch(normType, descSource, descRef, knnK), matches, oobMode)

\* the SEL_NN branch
selectNearest(normType, descSource, descRef, matches, oobMode) ==
    [status |-> "ok", matches |-> match(normType, descSource, descRef)]

\* the SEL_KNN branch
selectRatio(normType, descSource, descRef, matches, oobMode) ==
    ratioLoop(knnMatch(normType, descSource, descRef, knnK), matches, oobMode)

matchDescriptors(descSource, descRef, matches, descType, mType, sType, oobMode) ==
    LET normType == normTypeOf(descType)
        matcher  == createMatcher(mType, descType)
    IN  IF matcher = "none"
        THEN [status |-> "invalid_argument", matches |-> matches]
        ELSE IF sType = SEL_NN
             THEN selectNearest(normType, descSource, descRef, matches, oobMode)
             ELSE IF sType = SEL_KNN
                  THEN selectRatio(normType, descSource, descRef, matches, oobMode)
                  ELSE [status |-> "invalid_argument", matches |-> matches]


(***************************************************************************)
(* Environment of a run: the build, the image files, the scene.            *)
(***************************************************************************)
\* detKeypoints: "ok", or the exception it throws before detecting
detKeypoints(detectorType, xfeatures2d) ==
    IF detectorType \in {SHITOMASI, HARRIS, FAST, BRISK, ORB, AKAZE} THEN "ok"
    ELSE IF detectorType = SIFT
         THEN (IF xfeatures2d THEN "ok" ELSE "runtime_error")
         ELSE "invalid_argument"

\* descKeypoints: "ok", or the exception it throws before extracting
descKeypoints(descriptorType, xfeatures2d) ==
    IF descriptorType \in {BRISK, ORB, AKAZE} THEN "ok"
    ELSE IF descriptorType \in {SIFT, BRIEF, FREAK}
         THEN (IF xfeatures2d THEN "ok" ELSE "runtime_error")
         ELSE "invalid_argument"

\* What the images show. A scene gives, for the even and for the odd image
\* indices, the number of keypoints left by detection and ROI filtering and
\* the descriptors extracted for them (the extractor drops keypoints it
\* cannot describe, so there may be fewer descriptors than keypoints).
SweepScenes ==
    { << [nkp |-> 2, desc |-> <<0, 2>>], [nkp |-> 2, desc |-> <<0, 1>>] >>,
      << [nkp |-> 2, desc |-> <<1, 2>>], [nkp |-> 3, desc |-> <<0, 0>>] >>,
      << [nkp |-> 2, desc |-> <<0, 1>>], [nkp |-> 1, desc |-> <<2>>] >>,
      << [nkp |-> 1, desc |-> <<1>>],    [nkp |-> 2, desc |-> <<0, 2>>] >>,
      << [nkp |-> 1, desc |-> <<1>>],    [nkp |-> 0, desc |-> <<>>] >>,
      << [nkp |-> 3, desc |-> <<0, 0, 0>>], [nkp |-> 2, desc |-> <<0, 2>>] >> }

sceneFrame(i) == scene[(i % 2) + 1]

\* the image files that cannot be read: none, or one image of one of the
\* first combinations (a pair <<combination ordinal, image index>>)
FaultScenarios ==
    {{}} \cup {{<<r, i>>} : r \in 1..MaxFaultRun, i \in {0, 2}}

\* command lines
toLowerInput(s) ==
    [i \in 1..Len(s) |->
        IF \E k \in DOMAIN UpperCase : UpperCase[k] = s[i]
        THEN LowerCase[CHOOSE k \in DOMAIN UpperCase : UpperCase[k] = s[i]]
        ELSE s[i]]
toMixedInput(s) == [i \in 1..Len(s) |-> IF i = 1 THEN s[i] ELSE toLowerInput(s)[i]]
Bogus == <<"b","o","g","u","s">>

ArgvSet ==
    { <<>>,
      <<OptDetector, toLowerInput(AKAZE)>>,
      <<OptDescriptor, toMixedInput(AKAZE)>>,
      <<OptDetector, toLowerInput(FAST), OptDescriptor, AKAZE>>,
      <<OptDetector, FAST, OptDescriptor, toLowerInput(BRISK)>>,
      <<OptDetector, toLowerInput(HARRIS), OptDescriptor, toLowerInput(ORB),
        OptSelector, toLowerInput(SEL_NN)>>,
      <<OptDetector, toLowerInput(ORB), OptDescriptor, toLowerInput(SIFT),
        OptMatcher, toLowerInput(MAT_FLANN), OptSave>>,
      <<OptDetector, Bogus>>,
      <<OptDescriptor, Bogus, OptDetector, toMixedInput(SIFT)>>,
      <<OptSelector, Bogus, OptDetector, FAST>>,
      <<OptMatcher, Bogus, OptDetector, FAST, OptDescriptor, ORB>>,
      <<Bogus>>,
      <<OptSave, OptDetector>> }

NoCall == [run |-> 0, imgIndex |-> 0, srcImg |-> 0, srcRun |-> 0,
           refImg |-> 0, refRun |-> 0, status |-> "none", outLen |-> 0]
NoInput == [descSource |-> <<>>, descRef |-> <<>>, descriptorType |-> <<>>,
            matcherType |-> <<>>, selectorType |-> <<>>, oob |-> "trap"]
NoOutput == [status |-> "none", matches |-> <<>>]
NoRoiCall ==
    /\ kIn = <<>>
    /\ kOut = <<>>
    /\ kPasses = 0
    /\ rectRoundsPoint = FALSE

(***************************************************************************)
(* Initial state: main entered, nothing parsed yet.                        *)
(***************************************************************************)
InitMain ==
    /\ argi = 1
    /\ singleDetector = <<>>
    /\ singleDescriptor = <<>>
    /\ matcherType = MAT_BF
    /\ selectorType = SEL_KNN
    /\ bSaveImages = FALSE
    /\ pc = "parse"
    /\ detectorTypes = <<>>
    /\ descriptorTypes = <<>>
    /\ di = 1
    /\ dj = 1
    /\ logState = "unopened"
    /\ keypointLog = <<>>
    /\ matchLog = <<>>
    /\ testing = <<>>
    /\ errLog = <<>>
    /\ usagePrinted = FALSE
    /\ summaryPrinted = FALSE
    /\ rpc = "idle"
    /\ imgIndex = 0
    /\ dataBuffer = <<>>
    /\ lastCall = NoCall
    /\ runs = <<>>

Init ==
    /\ argv \in ArgvSet
    /\ hasXfeatures2d \in BOOLEAN
    /\ scene \in SweepScenes
    /\ oob \in (IF \E k \in 1..2 : Len(scene[k].desc) < knnK
                THEN OobModes ELSE {"trap"})
    /\ missingAt \in FaultScenarios
    /\ vizThrows \in (IF \E k \in DOMAIN argv : argv[k] = OptSave
                      THEN BOOLEAN ELSE {FALSE})
    /\ InitMain
    /\ mpc = "off"
    /\ mIn = NoInput
    /\ mOut = NoOutput
    /\ NoRoiCall

(***************************************************************************)
(* main: command line parsing, one loop iteration per step.                *)
(***************************************************************************)
\* the else branch of the argument loop: usage on stderr, return 1
IgnoreArgument ==
    /\ argi' = argi + 1
    /\ UNCHANGED <<usagePrinted, pc, singleDetector, singleDescriptor,
                   matcherType, selectorType, bSaveImages>>

RejectArgument ==
    /\ usagePrinted' = TRUE
    /\ pc' = "exit1"
    /\ UNCHANGED <<argi, singleDetector, singleDescriptor,
                   matcherType, selectorType, bSaveImages>>

ParseArg ==
    /\ pc = "parse"
    /\ argi <= Len(argv)
    /\ LET arg == argv[argi]
           hasValue == argi + 1 <= Len(argv)
       IN  IF arg = OptDetector /\ hasValue
           THEN /\ singleDetector' = toUpperCase(argv[argi + 1])
                /\ argi' = argi + 2
                /\ UNCHANGED <<singleDescriptor, matcherType, selectorType,
                               bSaveImages, pc, usagePrinted>>
           ELSE IF arg = OptDescriptor /\ hasValue
           THEN /\ singleDescriptor' = toUpperCase(argv[argi + 1])
                /\ argi' = argi + 2
                /\ UNCHANGED <<singleDetector, matcherType, selectorType,
                               bSaveImages, pc, usagePrinted>>
           ELSE IF arg = OptMatcher /\ hasValue
           THEN /\ matcherType' = toUpperCase(argv[argi + 1])
                /\ argi' = argi + 2
                /\ UNCHANGED <<singleDetector, singleDescriptor, selectorType,
                               bSaveImages, pc, usagePrinted>>
           ELSE IF arg = OptSelector /\ hasValue
           THEN /\ selectorType' = toUpperCase(argv[argi + 1])
                /\ argi' = argi + 2
                /\ UNCHANGED <<singleDetector, singleDescriptor, matcherType,
                               bSaveImages, pc, usagePrinted>>
           ELSE IF arg = OptSave
           THEN /\ bSaveImages' = TRUE
                /\ argi' = argi + 1
                /\ UNCHANGED <<singleDetector, singleDescriptor, matcherType,
                               selectorType, pc, usagePrinted>>
           ELSE RejectArgument
    /\ UNCHANGED <<argv, detectorTypes, descriptorTypes, di, dj, logState,
                   keypointLog, matchLog, testing, errLog, summaryPrinted,
                   runVars, envVars, callVars>>

\* a log line
HeaderRow == [kind |-> "header"]
KeypointRowOneBased(i, det, n) ==
    [kind |-> "row", imgIndex |-> i + 1, detectorType |-> det, numKeypoints |-> n]
KeypointRow(i, det, n) ==
    [kind |-> "row", imgIndex |-> i, detectorType |-> det, numKeypoints |-> n]
MatchRow(i, det, desc, n) ==
    [kind |-> "row", imgIndex |-> i, detectorType |-> det,
     descriptorType |-> desc, numMatches |-> n]

\* logKeypointStats: one line appended to the log, whatever the number of
\* keypoints
logKeypointStatsNonEmpty(log, i, det, n) ==
    IF n = 0 THEN log ELSE Append(log, KeypointRow(i, det, n))

logKeypointStats(log, i, det, n) == Append(log, KeypointRow(i, det, n))

\* after the last argument: choose the combinations, open both logs and
\* write their header lines
Setup ==
    /\ pc = "parse"
    /\ argi > Len(argv)
    /\ detectorTypes' = IF singleDetector # <<>> THEN <<singleDetector>>
                        ELSE AllDetectors
    /\ descriptorTypes' = IF singleDescriptor # <<>> THEN <<singleDescriptor>>
                          ELSE AllDescriptors
    /\ logState' = "open"
    /\ keypointLog' = <<HeaderRow>>
    /\ matchLog' = <<HeaderRow>>
    /\ pc' = "sweep"
    /\ di' = 1
    /\ dj' = 1
    /\ UNCHANGED <<cliVars, testing, errLog, usagePrinted, summaryPrinted,
                   runVars, envVars, callVars>>


(***************************************************************************)
(* main: the sweep loop.  (di, dj) is the iteration about to be made; the  *)
(* loop is over when di runs past the detector list.                       *)
(***************************************************************************)
curDet  == detectorTypes[di]
curDesc == descriptorTypes[dj]

nextDi == IF dj < Len(descriptorTypes) THEN di ELSE di + 1
nextDj == IF dj < Len(descriptorTypes) THEN dj + 1 ELSE 1

\* AKAZE descriptors only work with the AKAZE detector
pairingExcludedNever(det, desc) == FALSE

pairingExcluded(det, desc) == desc = AKAZE /\ det # AKAZE

SkipPairing ==
    /\ pc = "sweep"
    /\ di <= Len(detectorTypes)
    /\ pairingExcluded(curDet, curDesc)
    /\ di' = nextDi
    /\ dj' = nextDj
    /\ UNCHANGED <<cliVars, pc, detectorTypes, descriptorTypes, ioVars,
                   runVars, envVars, callVars>>

\* the deque a runCombination call works on: a local of the call, empty
\* when the call begins and gone when it is left
leakedDeque == dataBuffer

newDeque == <<>>

\* print the banner and enter runCombination with an empty buffer
BeginCombination ==
    /\ pc = "sweep"
    /\ di <= Len(detectorTypes)
    /\ ~pairingExcluded(curDet, curDesc)
    /\ testing' = Append(testing, <<curDet, curDesc>>)
    /\ pc' = "run"
    /\ rpc' = "load"
    /\ imgIndex' = 0
    /\ dataBuffer' = newDeque
    /\ runs' = Append(runs, [kpMark |-> Len(keypointLog),
                            matchMark |-> Len(matchLog),
                            how |-> "running", step |-> "load", imgIndex |-> 0])
    /\ UNCHANGED <<cliVars, detectorTypes, descriptorTypes, di, dj, logState,
                   keypointLog, matchLog, errLog, usagePrinted,
                   summaryPrinted, lastCall, envVars, callVars>>

\* runCombination is left (by return or by an exception): its buffer is
\* destroyed and the sweep moves to the next pairing
ended(how) ==
    [runs EXCEPT ![Len(runs)] =
        [@ EXCEPT !.how = how, !.step = rpc, !.imgIndex = imgIndex]]

LeaveCombination ==
    /\ pc' = "sweep"
    /\ di' = nextDi
    /\ dj' = nextDj
    /\ rpc' = "idle"
    /\ imgIndex' = 0
    /\ dataBuffer' = newDeque

\* the catch clause of the sweep loop
Caught(what) ==
    /\ errLog' = Append(errLog, [det |-> curDet, desc |-> curDesc, what |-> what])
    /\ runs' = ended("threw")
    /\ LeaveCombination

Finish ==
    /\ pc = "sweep"
    /\ di > Len(detectorTypes)
    /\ logState' = "closed"
    /\ summaryPrinted' = TRUE
    /\ pc' = "done"
    /\ UNCHANGED <<cliVars, detectorTypes, descriptorTypes, di, dj,
                   keypointLog, matchLog, testing, errLog, usagePrinted,
                   runVars, envVars, callVars>>

(***************************************************************************)
(* runCombination: the image loop.                                         *)
(***************************************************************************)
run == Len(testing)

\* the largest loop index of the image loop
lastImgIndexExclusive == imgEndIndex - imgStartIndex - 1

lastImgIndex == imgEndIndex - imgStartIndex

\* the loop condition fails: return to main
ReturnFromRun ==
    /\ pc = "run"
    /\ rpc = "load"
    /\ imgIndex > lastImgIndex
    /\ LeaveCombination
    /\ runs' = ended("returned")
    /\ UNCHANGED <<cliVars, detectorTypes, descriptorTypes, ioVars, lastCall,
                   envVars, callVars>>

\* 1. load the image; loadGrayscaleImage throws when it cannot be read
LoadImage ==
    /\ pc = "run"
    /\ rpc = "load"
    /\ imgIndex <= lastImgIndex
    /\ IF <<run, imgIndex>> \in missingAt
       THEN /\ Caught("runtime_error")
            /\ UNCHANGED <<detectorTypes, descriptorTypes, logState,
                           keypointLog, matchLog, testing, usagePrinted,
                           summaryPrinted>>
       ELSE /\ rpc' = "ring"
            /\ UNCHANGED <<sweepVars, ioVars, imgIndex, dataBuffer, runs>>
    /\ UNCHANGED <<cliVars, lastCall, envVars, callVars>>

NewFrame == [cameraImg |-> imgIndex, run |-> run, keypoints |-> 0,
             descriptors |-> <<>>, kptMatches |-> <<>>]

\* the eviction condition
bufferFullOffByOne == Len(dataBuffer) = dataBufferSize + 1

bufferFull == Len(dataBuffer) = dataBufferSize

\* deque::pop_front
pop_back(buf) == SubSeq(buf, 1, Len(buf) - 1)

pop_front(buf) == Tail(buf)

\* 2. ring buffer: when full, drop the oldest frame ...
RingEvict ==
    /\ pc = "run"
    /\ rpc = "ring"
    /\ bufferFull
    /\ dataBuffer' = pop_front(dataBuffer)
    /\ rpc' = "push"
    /\ UNCHANGED <<cliVars, sweepVars, ioVars, imgIndex, lastCall, runs,
                   envVars, callVars>>

\* ... then append the new frame
RingPush ==
    /\ pc = "run"
    /\ \/ rpc = "push"
       \/ rpc = "ring" /\ ~bufferFull
    /\ dataBuffer' = Append(dataBuffer, NewFrame)
    /\ rpc' = "detect"
    /\ UNCHANGED <<cliVars, sweepVars, ioVars, imgIndex, lastCall, runs,
                   envVars, callVars>>

back == dataBuffer[Len(dataBuffer)]

setBack(frame) == [dataBuffer EXCEPT ![Len(dataBuffer)] = frame]

\* 3. detect and ROI-filter the keypoints, log their statistics
Detect ==
    /\ pc = "run"
    /\ rpc = "detect"
    /\ LET st == detKeypoints(curDet, hasXfeatures2d)
           n  == sceneFrame(imgIndex).nkp
       IN  IF st = "ok"
           THEN /\ keypointLog' = logKeypointStats(keypointLog, imgIndex, curDet, n)
                /\ dataBuffer' = setBack([back EXCEPT !.keypoints = n])
                /\ rpc' = "describe"
                /\ UNCHANGED <<sweepVars, errLog, imgIndex, runs>>
           ELSE /\ Caught(st)
                /\ UNCHANGED <<detectorTypes, descriptorTypes, keypointLog>>
    /\ UNCHANGED <<cliVars, logState, matchLog, testing, usagePrinted,
                   summaryPrinted, lastCall, envVars, callVars>>

\* 4. extract descriptors; the extractor drops the keypoints it cannot
\* describe from the frame's keypoints
Describe ==
    /\ pc = "run"
    /\ rpc = "describe"
    /\ LET st == descKeypoints(curDesc, hasXfeatures2d)
           d  == sceneFrame(imgIndex).desc
       IN  IF st = "ok"
           THEN /\ dataBuffer' = setBack([back EXCEPT !.keypoints = Len(d),
                                                      !.descriptors = d])
                /\ rpc' = "match"
                /\ UNCHANGED <<sweepVars, errLog, imgIndex, runs>>
           ELSE /\ Caught(st)
                /\ UNCHANGED <<detectorTypes, descriptorTypes>>
    /\ UNCHANGED <<cliVars, logState, keypointLog, matchLog, testing,
                   usagePrinted, summaryPrinted, lastCall, envVars, callVars>>

\* 5. fewer than two frames: nothing to match, next image
NoMatchYet ==
    /\ pc = "run"
    /\ rpc = "match"
    /\ ~(Len(dataBuffer) > 1)
    /\ imgIndex' = imgIndex + 1
    /\ rpc' = "load"
    /\ UNCHANGED <<cliVars, sweepVars, ioVars, dataBuffer, lastCall, runs,
                   envVars, callVars>>

\* the frame matchDescriptors takes its source descriptors from
sourceFrameNewest == dataBuffer[Len(dataBuffer)]

sourceFrame == dataBuffer[Len(dataBuffer) - 1]

\* the image index written to the match log
matchRowIndexPrev == imgIndex - 1

matchRowIndex == imgIndex

\* 5. match the previous frame against the current one, log the count
Match ==
    /\ pc = "run"
    /\ rpc = "match"
    /\ Len(dataBuffer) > 1
    /\ LET src == sourceFrame
           r   == matchDescriptors(src.descriptors, back.descriptors, <<>>,
                                   curDesc, matcherType, selectorType, oob)
       IN  /\ lastCall' = [run |-> run, imgIndex |-> imgIndex,
                           srcImg |-> src.cameraImg, srcRun |-> src.run,
                           refImg |-> back.cameraImg, refRun |-> back.run,
                           status |-> r.status, outLen |-> Len(r.matches)]
           /\ IF r.status = "ok"
              THEN /\ dataBuffer' = setBack([back EXCEPT !.kptMatches = r.matches])
                   /\ matchLog' = Append(matchLog,
                          MatchRow(matchRowIndex, curDet, curDesc, Len(r.matches)))
                   /\ IF bSaveImages
                      THEN rpc' = "save" /\ imgIndex' = imgIndex
                      ELSE rpc' = "load" /\ imgIndex' = imgIndex + 1
                   /\ UNCHANGED <<sweepVars, errLog, runs>>
              ELSE IF r.status = "crash"
                   THEN /\ pc' = "crashed"
                        /\ runs' = ended("killed")
                        /\ UNCHANGED <<detectorTypes, descriptorTypes, di, dj,
                                       matchLog, errLog, rpc, imgIndex, dataBuffer>>
                   ELSE /\ Caught(r.status)
                        /\ UNCHANGED <<detectorTypes, descriptorTypes, matchLog>>
    /\ UNCHANGED <<cliVars, logState, keypointLog, testing, usagePrinted,
                   summaryPrinted, envVars, callVars>>

\* 6. draw and write the match image (only with --save)
SaveImage ==
    /\ pc = "run"
    /\ rpc = "save"
    /\ IF vizThrows
       THEN /\ Caught("cv_exception")
            /\ UNCHANGED <<detectorTypes, descriptorTypes>>
       ELSE /\ imgIndex' = imgIndex + 1
            /\ rpc' = "load"
            /\ UNCHANGED <<sweepVars, errLog, dataBuffer, runs>>
    /\ UNCHANGED <<cliVars, logState, keypointLog, matchLog, testing,
                   usagePrinted, summaryPrinted, lastCall, envVars, callVars>>

Next ==
    \/ ParseArg
    \/ Setup
    \/ SkipPairing
    \/ BeginCombination
    \/ LoadImage
    \/ RingEvict
    \/ RingPush
    \/ Detect
    \/ Describe
    \/ NoMatchYet
    \/ Match
    \/ SaveImage
    \/ ReturnFromRun
    \/ Finish

Spec == Init /\ [][Next]_vars

(***************************************************************************)
(* A single matchDescriptors call on bounded descriptor sets.              *)
(***************************************************************************)
RECURSIVE SeqsUpTo(_, _)
SeqsUpTo(S, n) ==
    IF n = 0 THEN {<<>>}
    ELSE LET shorter == SeqsUpTo(S, n - 1)
         IN  shorter \cup {Append(t, x) : t \in shorter, x \in S}

DescriptorSets == SeqsUpTo(0..MaxDescVal, MaxKp)

InitMatch ==
    /\ mpc = "call"
    /\ mIn \in [descSource : DescriptorSets, descRef : DescriptorSets,
                descriptorType : {ORB, SIFT},
                matcherType : {MAT_BF, MAT_FLANN, Bogus},
                selectorType : {SEL_NN, SEL_KNN, Bogus},
                oob : OobModes]
    /\ mOut = NoOutput
    /\ argv = <<>>
    /\ hasXfeatures2d = TRUE
    /\ scene = <<>>
    /\ oob = "trap"
    /\ missingAt = {}
    /\ vizThrows = FALSE
    /\ InitMain
    /\ NoRoiCall

\* the call as runCombination makes it, with an empty output vector
MatchCall ==
    /\ mpc = "call"
    /\ mOut' = matchDescriptors(mIn.descSource, mIn.descRef, <<>>,
                                mIn.descriptorType, mIn.matcherType,
                                mIn.selectorType, mIn.oob)
    /\ mpc' = "ret"
    /\ UNCHANGED <<mIn, kIn, kOut, kPasses, rectRoundsPoint, cliVars,
                   sweepVars, ioVars, runVars, envVars>>

NextMatch == MatchCall

SpecMatch == InitMatch /\ [][NextMatch]_vars

(***************************************************************************)
(* A single matchDescriptors call for every descriptor kind name, the      *)
(* supported ones and names matchDescriptors does not know.                *)
(***************************************************************************)
SupportedBinaryKinds == {BRISK, ORB, AKAZE, BRIEF, FREAK}

DescriptorKindInputs ==
    SupportedBinaryKinds \cup {SIFT, Bogus, toLowerInput(SIFT)}

InitNorm ==
    /\ mpc = "call"
    /\ mIn \in [descSource : DescriptorSets, descRef : DescriptorSets,
                descriptorType : DescriptorKindInputs,
                matcherType : {MAT_BF, MAT_FLANN},
                selectorType : {SEL_NN},
                oob : {"trap"}]
    /\ mOut = NoOutput
    /\ argv = <<>>
    /\ hasXfeatures2d = TRUE
    /\ scene = <<>>
    /\ oob = "trap"
    /\ missingAt = {}
    /\ vizThrows = FALSE
    /\ InitMain
    /\ NoRoiCall

SpecNorm == InitNorm /\ [][NextMatch]_vars

(***************************************************************************)
(* The ROI filter of detectAndFilterKeypoints on its own.  Keypoint        *)
(* locations are floats; they are kept here in tenths of a pixel.          *)
(***************************************************************************)
\* longest keypoint sequence handed to the filter in SpecRoi
MaxRoiKp == 2

\* cv::Rect kVehicleROI(535, 180, 180, 150), in pixels
kVehicleROI == [x |-> 535, y |-> 180, width |-> 180, height |-> 150]

\* cvRound of a non-negative value given in tenths: nearest integer, a
\* half goes to the even neighbour
cvRound(t) ==
    LET q == t \div 10
        r == t % 10
    IN  IF r < 5 THEN q
        ELSE IF r > 5 THEN q + 1
        ELSE IF q % 2 = 0 THEN q ELSE q + 1

\* the location as Rect_<int>::contains sees it, in tenths: a library
\* whose contains takes a Point_<int> converts the Point2f with
\* saturate_cast<int>, which rounds; a library whose contains is a
\* template on the point type compares the floats
pointSeen(pt, rounds) ==
    IF rounds THEN [x |-> 10 * cvRound(pt.x), y |-> 10 * cvRound(pt.y)]
    ELSE pt

\* Rect_::contains: left and top inclusive, right and bottom exclusive
contains(rect, pt, rounds) ==
    LET p == pointSeen(pt, rounds)
    IN  /\ 10 * rect.x <= p.x
        /\ p.x < 10 * (rect.x + rect.width)
        /\ 10 * rect.y <= p.y
        /\ p.y < 10 * (rect.y + rect.height)

\* erase(remove_if(...)): the keypoints the predicate does not remove, in
\* their order
roiFilter(keypoints, rounds) ==
    LET Kept(kp) == contains(kVehicleROI, kp, rounds)
    IN  SelectSeq(keypoints, Kept)

\* keypoint locations around the four edges of the ROI, in tenths
RoiXs == {5345, 5346, 5350, 7144, 7146, 7150}
RoiYs == {1796, 1800, 3296, 3300}
RoiPoints == [x : RoiXs, y : RoiYs]

InitRoi ==
    /\ mpc = "roi"
    /\ kIn \in SeqsUpTo(RoiPoints, MaxRoiKp)
    /\ kOut = kIn
    /\ kPasses = 0
    /\ rectRoundsPoint \in BOOLEAN
    /\ mIn = NoInput
    /\ mOut = NoOutput
    /\ argv = <<>>
    /\ hasXfeatures2d = TRUE
    /\ scene = <<>>
    /\ oob = "trap"
    /\ missingAt = {}
    /\ vizThrows = FALSE
    /\ InitMain

\* the filter applied to the keypoints left by the previous application
FilterCall ==
    /\ mpc = "roi"
    /\ kPasses < 2
    /\ kOut' = roiFilter(kOut, rectRoundsPoint)
    /\ kPasses' = kPasses + 1
    /\ UNCHANGED <<mpc, mIn, mOut, kIn, rectRoundsPoint, cliVars, sweepVars,
                   ioVars, runVars, envVars>>

NextRoi == FilterCall

SpecRoi == InitRoi /\ [][NextRoi]_vars


(***************************************************************************)
(* Properties.                                                             *)
(***************************************************************************)
\* the rows a runCombination call wrote to each log
runKpRows(r) ==
    SubSeq(keypointLog, runs[r].kpMark + 1,
           IF r < Len(runs) THEN runs[r + 1].kpMark ELSE Len(keypointLog))
runMatchRows(r) ==
    SubSeq(matchLog, runs[r].matchMark + 1,
           IF r < Len(runs) THEN runs[r + 1].matchMark ELSE Len(matchLog))
ImgIndices(rows) == [k \in 1..Len(rows) |-> rows[k].imgIndex]

\* the pairings of the chosen detector and descriptor lists in sweep order,
\* without a descriptor AKAZE under another detector
ValidPairs ==
    LET nd == Len(detectorTypes)
        ns == Len(descriptorTypes)
        all == [n \in 1..(nd * ns) |->
                   <<detectorTypes[((n - 1) \div ns) + 1],
                     descriptorTypes[((n - 1) % ns) + 1]>>]
        Valid(p) == ~(p[2] = AKAZE /\ p[1] # AKAZE)
    IN  SelectSeq(all, Valid)

\* C1: the frame buffer never holds more than dataBufferSize frames, and
\* between eviction and append it holds fewer than dataBufferSize
C1_BufferBounded ==
    /\ Len(dataBuffer) >= 0
    /\ Len(dataBuffer) <= dataBufferSize
    /\ rpc = "push" => Len(dataBuffer) < dataBufferSize

C1_Witness ==
    /\ pc = "run"
    /\ rpc = "push"
    /\ imgIndex = 2
    /\ Len(dataBuffer) = dataBufferSize - 1

\* C2: after the push of image i (i + 1 pushes) the buffer holds exactly
\* the min(i + 1, dataBufferSize) most recently pushed frames of this
\* combination, oldest first
C2_FifoEviction ==
    (pc = "run" /\ rpc \in {"detect", "describe", "match", "save"}) =>
        LET m == IF imgIndex + 1 < dataBufferSize THEN imgIndex + 1
                 ELSE dataBufferSize
        IN  /\ Len(dataBuffer) = m
            /\ \A k \in 1..m :
                  /\ dataBuffer[k].cameraImg = imgIndex - m + k
                  /\ dataBuffer[k].run = run

C2_Witness ==
    /\ pc = "run"
    /\ rpc = "detect"
    /\ imgIndex = 2
    /\ Len(dataBuffer) = 2
    /\ dataBuffer[1].cameraImg = 1
    /\ dataBuffer[2].cameraImg = 2

\* C3: every matching call takes the frames of images i-1 (source) and i
\* (reference) of the running combination, and the row it logs carries
\* image index i and that combination's names
C3_MatchConsecutive ==
    /\ lastCall.status # "none" =>
          /\ lastCall.imgIndex >= 1
          /\ lastCall.srcImg = lastCall.imgIndex - 1
          /\ lastCall.refImg = lastCall.imgIndex
          /\ lastCall.srcRun = lastCall.run
          /\ lastCall.refRun = lastCall.run
    /\ lastCall.status = "ok" =>
          LET row == matchLog[Len(matchLog)]
          IN  /\ row.kind = "row"
              /\ row.imgIndex = lastCall.imgIndex
              /\ row.detectorType = testing[lastCall.run][1]
              /\ row.descriptorType = testing[lastCall.run][2]

C3_Witness ==
    /\ lastCall.status = "ok"
    /\ lastCall.run = 2
    /\ lastCall.imgIndex = 3
    /\ rpc = "load"

\* C4: a combination that returns normally has written one keypoint row
\* per image, indices 0..N-1 ascending, and one match row per image
\* 1..N-1 ascending, none for image 0
C4_RowsPerCombination ==
    \A r \in 1..Len(runs) :
        runs[r].how = "returned" =>
            LET N  == imgEndIndex - imgStartIndex + 1
                kp == runKpRows(r)
                mt == runMatchRows(r)
            IN  /\ ImgIndices(kp) = [k \in 1..N |-> k - 1]
                /\ \A k \in 1..Len(kp) : kp[k].detectorType = testing[r][1]
                /\ ImgIndices(mt) = [k \in 1..(N - 1) |-> k]
                /\ \A k \in 1..Len(mt) :
                      /\ mt[k].detectorType = testing[r][1]
                      /\ mt[k].descriptorType = testing[r][2]

C4_Witness ==
    /\ pc = "done"
    /\ Len(runs) >= 2
    /\ runs[1].how = "returned"
    /\ Len(runMatchRows(1)) = 9
    /\ runs[2].how = "returned"

\* C5: every failure inside a combination is reported with its pairing,
\* every valid pairing is attempted exactly once, and the program ends
\* only at the end of the sweep, with the summary printed
C5_FailureIsolation ==
    /\ Len(errLog) = Cardinality({r \in 1..Len(runs) : runs[r].how = "threw"})
    /\ \A e \in 1..Len(errLog) :
          \E r \in 1..Len(runs) :
              /\ runs[r].how = "threw"
              /\ errLog[e].det = testing[r][1]
              /\ errLog[e].desc = testing[r][2]
    /\ pc \in {"done", "crashed"} =>
          /\ pc = "done"
          /\ summaryPrinted
          /\ testing = ValidPairs

\* C5 without the runs in which the out-of-bounds read of C9 kills the
\* process
C5_IsolationOfExceptions ==
    /\ Len(errLog) = Cardinality({r \in 1..Len(runs) : runs[r].how = "threw"})
    /\ \A e \in 1..Len(errLog) :
          \E r \in 1..Len(runs) :
              /\ runs[r].how = "threw"
              /\ errLog[e].det = testing[r][1]
              /\ errLog[e].desc = testing[r][2]
    /\ pc = "done" => summaryPrinted /\ testing = ValidPairs

\* a load failure on image 2
LoadFailedAt2(r) ==
    /\ runs[r].how = "threw"
    /\ runs[r].step = "load"
    /\ runs[r].imgIndex = 2

\* C6: when loading image 2 fails in a combination, that combination has
\* keypoint rows for images 0 and 1 and a match row for image 1 only, and
\* all valid pairings after it are still run
C6_MissingImage2 ==
    \A r \in 1..Len(runs) :
        LoadFailedAt2(r) =>
            /\ ImgIndices(runKpRows(r)) = <<0, 1>>
            /\ ImgIndices(runMatchRows(r)) = <<1>>
            /\ pc \in {"done", "crashed"} => Len(runs) = Len(ValidPairs)

\* the part of C6 about the rows of the failing combination
C6_RowsOfFailingCombination ==
    \A r \in 1..Len(runs) :
        LoadFailedAt2(r) =>
            /\ ImgIndices(runKpRows(r)) = <<0, 1>>
            /\ ImgIndices(runMatchRows(r)) = <<1>>
            /\ pc = "done" => Len(runs) = Len(ValidPairs)

\* C7: the combination runner is never entered, and no match row is ever
\* written, with descriptor AKAZE under a detector other than AKAZE
C7_PairingConstraint ==
    /\ \A r \in 1..Len(testing) :
          testing[r][2] = AKAZE => testing[r][1] = AKAZE
    /\ \A k \in 2..Len(matchLog) :
          matchLog[k].descriptorType = AKAZE => matchLog[k].detectorType = AKAZE
    /\ pc = "run" => ~(curDesc = AKAZE /\ curDet # AKAZE)

\* --detector fast --descriptor AKAZE: the only pairing was skipped
C7_Witness ==
    /\ pc = "done"
    /\ argv = <<OptDetector, toLowerInput(FAST), OptDescriptor, AKAZE>>
    /\ singleDetector = FAST
    /\ singleDescriptor = AKAZE
    /\ testing = <<>>


(***************************************************************************)
(* Properties of a single matchDescriptors call (SpecMatch).               *)
(***************************************************************************)
callReturned(sType) ==
    /\ mpc = "ret"
    /\ mIn.selectorType = sType
    /\ mIn.matcherType \in {MAT_BF, MAT_FLANN}

\* distance of source descriptor q to reference descriptor j in the call
callDist(q, j) ==
    distance(normTypeOf(mIn.descriptorType), mIn.descSource[q], mIn.descRef[j])

\* the smallest and the second smallest distance of source descriptor q
callD1(q) ==
    CHOOSE d \in {callDist(q, j) : j \in DOMAIN mIn.descRef} :
        \A j \in DOMAIN mIn.descRef : d <= callDist(q, j)
callD2(q) ==
    LET j1 == CHOOSE j \in DOMAIN mIn.descRef : callDist(q, j) = callD1(q)
        rest == {callDist(q, j) : j \in DOMAIN mIn.descRef \ {j1}}
    IN  CHOOSE d \in rest : \A e \in rest : d <= e

\* C8: under SEL_KNN with at least two reference descriptors, source
\* descriptor q contributes its nearest match iff d1 < 0.8 * d2, and
\* contributes at most one match
C8_RatioTest ==
    (callReturned(SEL_KNN) /\ Len(mIn.descRef) >= 2) =>
        /\ mOut.status = "ok"
        /\ \A q \in DOMAIN mIn.descSource :
              (10 * callD1(q) < 8 * callD2(q))
                  <=> (\E k \in DOMAIN mOut.matches : mOut.matches[k].queryIdx = q - 1)
        /\ \A k \in DOMAIN mOut.matches :
              LET m == mOut.matches[k]
              IN  /\ m.queryIdx + 1 \in DOMAIN mIn.descSource
                  /\ m.trainIdx + 1 \in DOMAIN mIn.descRef
                  /\ m.distance = callD1(m.queryIdx + 1)
                  /\ callDist(m.queryIdx + 1, m.trainIdx + 1) = m.distance
                  /\ ~(10 * callD1(m.queryIdx + 1) >= 8 * callD2(m.queryIdx + 1))
        /\ \A k1, k2 \in DOMAIN mOut.matches :
              mOut.matches[k1].queryIdx = mOut.matches[k2].queryIdx => k1 = k2

\* one source descriptor accepted, one rejected as ambiguous
C8_Witness ==
    /\ callReturned(SEL_KNN)
    /\ Len(mIn.descRef) >= 2
    /\ Len(mIn.descSource) = 2
    /\ Len(mOut.matches) = 1
    /\ mOut.matches[1].queryIdx = 1

\* C9: under SEL_KNN with fewer than two reference descriptors the call
\* fails with an insufficient-candidates error
C9_InsufficientCandidates ==
    (callReturned(SEL_KNN) /\ Len(mIn.descRef) < 2) =>
        mOut.status = "insufficient_candidates"

callUsesNorm(normType) ==
    \A k \in DOMAIN mOut.matches :
        LET m == mOut.matches[k]
        IN  m.distance = distance(normType, mIn.descSource[m.queryIdx + 1],
                                  mIn.descRef[m.trainIdx + 1])

\* C11: a call with a supported binary descriptor kind measures Hamming
\* distance, a call with SIFT measures L2, and a call with any other
\* descriptor kind name fails instead of returning matches
C11_NormSelection ==
    mpc = "ret" =>
        /\ mIn.descriptorType \in SupportedBinaryKinds =>
              mOut.status = "ok" /\ callUsesNorm("NORM_HAMMING")
        /\ mIn.descriptorType = SIFT =>
              mOut.status = "ok" /\ callUsesNorm("NORM_L2")
        /\ mIn.descriptorType \notin SupportedBinaryKinds \cup {SIFT} =>
              mOut.status = "invalid_argument"

(***************************************************************************)
(* Properties of the sweep (Spec), continued.                              *)
(***************************************************************************)
unknownConfiguration ==
    \/ matcherType \notin {MAT_BF, MAT_FLANN}
    \/ selectorType \notin {SEL_NN, SEL_KNN}

\* C12: with an unknown matcher or selector name every matching call fails
\* with invalid_argument and leaves the match vector empty; the combination
\* it was made in writes no match row, is reported, and the sweep goes on
\* through all valid pairings to its end
C12_UnknownMatcherOrSelector ==
    unknownConfiguration =>
        /\ lastCall.status # "none" =>
              /\ lastCall.status = "invalid_argument"
              /\ lastCall.outLen = 0
        /\ \A r \in 1..Len(runs) :
              (runs[r].how # "running" /\ runs[r].step = "match") =>
                  /\ runs[r].how = "threw"
                  /\ runMatchRows(r) = <<>>
                  /\ \E e \in 1..Len(errLog) :
                        /\ errLog[e].what = "invalid_argument"
                        /\ errLog[e].det = testing[r][1]
                        /\ errLog[e].desc = testing[r][2]
        /\ Len(matchLog) <= 1
        /\ pc \in {"done", "crashed"} =>
              /\ pc = "done"
              /\ testing = ValidPairs

\* --selector bogus --detector FAST: the first two pairings both failed in
\* their first matching call and the sweep reached its end
C12_Witness ==
    /\ pc = "done"
    /\ selectorType = toUpperCase(Bogus)
    /\ Len(runs) >= 2
    /\ runs[1].how = "threw"
    /\ runs[1].step = "match"
    /\ runs[2].how = "threw"
    /\ runs[2].step = "match"
    /\ lastCall.status = "invalid_argument"

\* C13: descriptor extraction is never followed directly by the matching
\* step: a check of descriptor count against keypoint count lies between
C13_AlignmentChecked ==
    [][(pc = "run" /\ rpc = "describe") => rpc' # "match"]_vars

\* the keypoint count logged by run r for image i
kpCount(r, i) == runKpRows(r)[i + 1].numKeypoints

smaller(a, b) == IF a <= b THEN a ELSE b

\* C14: the match count logged for image i is at most the smaller of the
\* keypoint counts logged for images i-1 and i (stated for the builds in
\* which the out-of-bounds read of C9 traps, so that every logged count
\* comes from a call with defined behaviour)
C14_CountWithinSmallerFrame ==
    oob = "trap" =>
    \A r \in 1..Len(runs) :
        LET mt == runMatchRows(r)
        IN  \A k \in 1..Len(mt) :
                mt[k].numMatches <= smaller(kpCount(r, mt[k].imgIndex - 1),
                                            kpCount(r, mt[k].imgIndex))

\* C14, amended: the match count logged for image i is at most the
\* keypoint count logged for image i-1, the source frame of the call
C14_CountWithinSourceFrame ==
    \A r \in 1..Len(runs) :
        LET mt == runMatchRows(r)
        IN  \A k \in 1..Len(mt) :
                mt[k].numMatches <= kpCount(r, mt[k].imgIndex - 1)

\* three matches logged for a pair whose newer frame has two keypoints
C14_Witness ==
    /\ lastCall.status = "ok"
    /\ rpc = "load"
    /\ selectorType = SEL_KNN
    /\ matchLog[Len(matchLog)].numMatches = 3
    /\ kpCount(lastCall.run, lastCall.imgIndex - 1) = 3
    /\ kpCount(lastCall.run, lastCall.imgIndex) = 2

\* C16: no two data rows of the keypoint log carry the same image index
\* and detector (the log grows by appending, so it is enough to compare
\* the newest row with the rows before it)
C16_OneRowPerImageAndDetector ==
    \A k \in 2..(Len(keypointLog) - 1) :
        ~(/\ keypointLog[k].imgIndex = keypointLog[Len(keypointLog)].imgIndex
          /\ keypointLog[k].detectorType
               = keypointLog[Len(keypointLog)].detectorType)

\* C16, amended: the keypoint log is a header row followed by the rows of
\* the combinations in sweep order; each combination writes one row per
\* image it reached, indices ascending from 0, under its detector, so an
\* (image index, detector) pair has one row per pairing of the detector
C16_OneRowPerImageAndCombination ==
    /\ logState # "unopened" => keypointLog[1] = HeaderRow
    /\ Len(runs) >= 1 => runs[1].kpMark = 1
    /\ \A r \in 1..Len(runs) :
          LET kp == runKpRows(r)
          IN  /\ ImgIndices(kp) = [k \in 1..Len(kp) |-> k - 1]
              /\ \A k \in 1..Len(kp) :
                    /\ kp[k].kind = "row"
                    /\ kp[k].detectorType = testing[r][1]

\* image 0 of one detector logged by two of its pairings
C16_Witness ==
    /\ pc = "done"
    /\ Len(runs) >= 2
    /\ testing[1][1] = testing[2][1]
    /\ testing[1][2] # testing[2][2]
    /\ runs[1].how = "returned"
    /\ runs[2].how = "returned"
    /\ runKpRows(1)[1].imgIndex = 0
    /\ runKpRows(2)[1].imgIndex = 0
    /\ runKpRows(1)[1].detectorType = runKpRows(2)[1].detectorType

\* a sweep over the full detector and descriptor lists that is over and
\* in which every combination returned
fullSweepWithoutFailure ==
    /\ pc = "done"
    /\ detectorTypes = AllDetectors
    /\ descriptorTypes = AllDescriptors
    /\ \A r \in 1..Len(runs) : runs[r].how = "returned"

C18_SaveFailureKeepsStatistics ==
    \A r \in 1..Len(runs) :
        (missingAt = {} /\ runs[r].how # "running" /\ runs[r].step = "save") =>
            LET N == imgEndIndex - imgStartIndex + 1
            IN  /\ ImgIndices(runKpRows(r)) = [k \in 1..N |-> k - 1]
                /\ ImgIndices(runMatchRows(r)) = [k \in 1..(N - 1) |-> k]

\* C19: a combination begins with an empty buffer, the buffer only ever
\* holds frames of the running combination, every matching call pairs two
\* frames of the combination that makes it, and no match row is written
\* for image 0
C19_NoLeakBetweenCombinations ==
    /\ (pc = "run" /\ rpc = "load" /\ imgIndex = 0) => dataBuffer = <<>>
    /\ \A k \in DOMAIN dataBuffer : dataBuffer[k].run = run
    /\ lastCall.status # "none" =>
          /\ lastCall.srcRun = lastCall.run
          /\ lastCall.refRun = lastCall.run
          /\ lastCall.imgIndex >= 1
    /\ \A k \in 2..Len(matchLog) : matchLog[k].imgIndex >= 1

\* the combination after a failed one has processed its first image
\* without a matching call
C19_Witness ==
    /\ pc = "run"
    /\ rpc = "load"
    /\ imgIndex = 1
    /\ run >= 2
    /\ runs[run - 1].how = "threw"
    /\ runs[run - 1].imgIndex >= 1
    /\ Len(dataBuffer) = 1
    /\ runMatchRows(run) = <<>>

\* a command line made of the four valued options, each with its value,
\* and --save
RECURSIVE WellFormedArgs(_)
WellFormedArgs(args) ==
    IF args = <<>> THEN TRUE
    ELSE IF Head(args) \in {OptDetector, OptDescriptor, OptMatcher, OptSelector}
              /\ Len(args) >= 2
         THEN WellFormedArgs(SubSeq(args, 3, Len(args)))
         ELSE IF Head(args) = OptSave THEN WellFormedArgs(Tail(args))
              ELSE FALSE

\* C20: with any other argument on the command line the program never
\* gets past argument parsing: neither log is opened or written and no
\* combination is run; it ends with usage printed and exit status 1,
\* which happens in no other case
C20_UnknownArgument ==
    /\ ~WellFormedArgs(argv) =>
          /\ pc \in {"parse", "exit1"}
          /\ logState = "unopened"
          /\ keypointLog = <<>>
          /\ matchLog = <<>>
          /\ testing = <<>>
          /\ runs = <<>>
          /\ (pc = "parse" /\ argi <= Len(argv)) =>
                WellFormedArgs(SubSeq(argv, 1, argi - 1))
    /\ pc = "exit1" => usagePrinted /\ ~WellFormedArgs(argv)
    /\ usagePrinted => pc = "exit1"

\* --save --detector: the flag was taken, the option without a value was
\* rejected
C20_Witness ==
    /\ pc = "exit1"
    /\ argv = <<OptSave, OptDetector>>
    /\ bSaveImages
    /\ usagePrinted
    /\ logState = "unopened"

(***************************************************************************)
(* The ROI filter (SpecRoi).                                               *)
(***************************************************************************)
\* the location lies in 535 <= x < 715, 180 <= y < 330
insideVehicleROI(kp) ==
    /\ 5350 <= kp.x
    /\ kp.x < 7150
    /\ 1800 <= kp.y
    /\ kp.y < 3300

\* sub is seq with some elements left out
RECURSIVE IsSubSeq(_, _)
IsSubSeq(sub, seq) ==
    IF sub = <<>> THEN TRUE
    ELSE IF seq = <<>> THEN FALSE
    ELSE IF Head(sub) = Head(seq) THEN IsSubSeq(Tail(sub), Tail(seq))
    ELSE IsSubSeq(sub, Tail(seq))

\* C15: the filter keeps exactly the keypoints located in 535 <= x < 715,
\* 180 <= y < 330, in their order, and applying it twice gives what
\* applying it once gives
C15_RoiFilter ==
    (mpc = "roi" /\ kPasses >= 1) =>
        /\ kOut = SelectSeq(kIn, insideVehicleROI)
        /\ IsSubSeq(kOut, kIn)
        /\ kOut = roiFilter(kIn, rectRoundsPoint)

(***************************************************************************)
(* Order of the log writes within a combination (Spec).                    *)
(***************************************************************************)
\* the sequence a, a+1, ..., b (empty when b < a)
upTo(a, b) == [k \in 1..(b - a + 1) |-> a + k - 1]

\* the rows of the running combination, by the step it is at: the keypoint
\* row of the image in work exists from the describe step on, its match
\* row only after the matching call has returned
rowsFollowSteps ==
    pc = "run" =>
        /\ ImgIndices(runKpRows(run)) =
              upTo(0, IF rpc \in {"describe", "match", "save"}
                      THEN imgIndex ELSE imgIndex - 1)
        /\ ImgIndices(runMatchRows(run)) =
              upTo(1, IF rpc = "save" THEN imgIndex ELSE imgIndex - 1)

\* the rows of a combination that ended with an exception at image k
rowsUpToFailure ==
    \A r \in 1..Len(runs) :
        runs[r].how = "threw" =>
            LET k == runs[r].imgIndex
            IN  /\ runs[r].step \in {"load", "detect"} =>
                      /\ ImgIndices(runKpRows(r)) = upTo(0, k - 1)
                      /\ ImgIndices(runMatchRows(r)) = upTo(1, k - 1)
                /\ runs[r].step \in {"describe", "match"} =>
                      /\ ImgIndices(runKpRows(r)) = upTo(0, k)
                      /\ ImgIndices(runMatchRows(r)) = upTo(1, k - 1)

\* a step leaves every line already in the log as it is
appendOnly(log, logAfter) ==
    /\ Len(logAfter) >= Len(log)
    /\ SubSeq(logAfter, 1, Len(log)) = log

\* C21: the keypoint row of image k is written between detection and
\* descriptor extraction of image k and the match row of image k after the
\* matching call returned; a combination ended by an exception in load or
\* detection at image k has keypoint rows 0..k-1, one ended in descriptor
\* extraction or matching has keypoint rows 0..k, both have match rows
\* 1..k-1; and no step changes a row written before it
C21_RowsUpToFailure ==
    /\ [](rowsFollowSteps /\ rowsUpToFailure)
    /\ [][/\ appendOnly(keypointLog, keypointLog')
          /\ appendOnly(matchLog, matchLog')]_vars

\* the second combination failed to load image 2 after the first one
\* returned, and the sweep is over
C21_Witness ==
    /\ pc = "done"
    /\ Len(runs) >= 2
    /\ runs[1].how = "returned"
    /\ Len(runKpRows(1)) = 10
    /\ Len(runMatchRows(1)) = 9
    /\ LoadFailedAt2(2)
    /\ ImgIndices(runKpRows(2)) = <<0, 1>>
    /\ ImgIndices(runMatchRows(2)) = <<1>>

=============================================================================
